---- MODULE Spec2Model ----
(***************************************************************************)
(* Link-table reconciliation of the management-account playground.         *)
(*                                                                         *)
(* One DynamoDB table holds one item per (PK, SK) = (PS#<tenant>,          *)
(* ENV#<environment>).  The local creation script inserts the item with a  *)
(* conditional Put; three Lambda handlers update it from EventBridge       *)
(* events:                                                                 *)
(*   provision-product          (Service Catalog ProvisionProduct)         *)
(*   create-managed-account     (Control Tower CreateManagedAccount)       *)
(*   stackset-instance-status   (CloudFormation StackSet instance status)  *)
(* Every await of a handler is a point where another invocation may run,   *)
(* so a handler is modelled by one step per store operation.               *)
(***************************************************************************)
EXTENDS Integers, Sequences, FiniteSets, Bags, TLC

VARIABLES
    table,      \* the link table: key [PK, SK] -> item, DOMAIN = stored keys
    now,        \* the wall clock read by new Date()
    inflight,   \* bag of invocations awaiting their UpdateCommand
    log,        \* the last line written by console.log / console.error
    redo        \* history: the event applied last, while nothing else has run

vars == <<table, now, inflight, log, redo>>

----------------------------------------------------------------------------
(* Bounds of the model *)

MaxClock == 3          \* the clock is read at most this many times
MaxInFlight == 2       \* invocations that may be in flight together

----------------------------------------------------------------------------
(* JavaScript values *)

\* A missing property or attribute (undefined).
Undefined == "<undefined>"

\* JavaScript truthiness of a string-or-undefined value.
Truthy(v) == v # Undefined /\ v # ""

\* a || b
OrElse(a, b) == IF Truthy(a) THEN a ELSE b

\* array.find(x => x.key === k)?.value
RECURSIVE FindValue(_, _)
FindValue(arr, k) ==
    IF arr = << >> THEN Undefined
    ELSE IF Head(arr).key = k THEN Head(arr).value
    ELSE FindValue(Tail(arr), k)

\* string.split(':') on a string given as its sequence of characters/tokens:
\* the result always has one more segment than there are separators.
RECURSIVE SplitColon(_, _, _)
SplitColon(str, cur, acc) ==
    IF str = << >> THEN Append(acc, cur)
    ELSE IF Head(str) = ":" THEN SplitColon(Tail(str), "", Append(acc, cur))
    ELSE SplitColon(Tail(str), cur \o Head(str), acc)

Split(str) == SplitColon(str, "", << >>)

----------------------------------------------------------------------------
(* The table *)

TenantIds == {"t1", "t2"}
Environments == {"Dev"}

KeyOf(psAccountId, environment) ==
    [PK |-> "PS#" \o psAccountId, SK |-> "ENV#" \o environment]

Keys == {KeyOf(t, e) : t \in TenantIds, e \in Environments}

Attributes == {"AwsAccountStatus", "AwsAccountId", "AwsAccountName",
               "PageSuiteRoleStatus", "PageSuiteRoleArn", "LastModified"}

\* Attribute a of an item, Undefined when the item does not carry it.
Attr(item, a) == IF a \in DOMAIN item THEN item[a] ELSE Undefined

\* PutCommand Item of the creation script.
InitialItem(key, ts) ==
    [PK |-> key.PK, SK |-> key.SK,
     AwsAccountStatus |-> "PENDING",
     AwsAccountId |-> "",
     AwsAccountName |-> "",
     PageSuiteRoleStatus |-> "PENDING",
     PageSuiteRoleArn |-> "",
     LastModified |-> ts]

\* PutCondition without the ConditionExpression: the Put always goes through.
PutConditionDropped(tbl, key) == TRUE

\* ConditionExpression attribute_not_exists(PK) AND attribute_not_exists(SK)
PutCondition(tbl, key) == key \notin DOMAIN tbl

\* DynamoDB PutCommand with that condition: the table afterwards.
PutItem(tbl, key, item) ==
    IF PutCondition(tbl, key)
    THEN [k \in DOMAIN tbl \cup {key} |-> IF k = key THEN item ELSE tbl[k]]
    ELSE tbl

\* UpdateItem that replaces the whole item, as a Put of the SET attributes
\* under the key would.
UpdateItemReplaces(tbl, key, set) ==
    LET new == [a \in {"PK", "SK"} \cup DOMAIN set |->
                   IF a \in DOMAIN set THEN set[a] ELSE key[a]]
    IN  [k \in DOMAIN tbl \cup {key} |-> IF k = key THEN new ELSE tbl[k]]

\* UpdateItem that applies the SET to every stored item.
UpdateItemOnEveryItem(tbl, key, set) ==
    [k \in DOMAIN tbl \cup {key} |->
        LET old == IF k \in DOMAIN tbl THEN tbl[k] ELSE [PK |-> k.PK, SK |-> k.SK]
        IN  [a \in DOMAIN old \cup DOMAIN set |->
                IF a \in DOMAIN set THEN set[a] ELSE old[a]]]

\* DynamoDB UpdateCommand without condition: SET the attributes of `set` on
\* the item under `key`, creating the item when the key is not stored.
UpdateItem(tbl, key, set) ==
    LET old == IF key \in DOMAIN tbl THEN tbl[key]
               ELSE [PK |-> key.PK, SK |-> key.SK]
        new == [a \in DOMAIN old \cup DOMAIN set |->
                   IF a \in DOMAIN set THEN set[a] ELSE old[a]]
    IN  [k \in DOMAIN tbl \cup {key} |-> IF k = key THEN new ELSE tbl[k]]

\* Scan without its FilterExpression: every item is returned.
ScanWithoutFilter(tbl, accountName) == {tbl[k] : k \in DOMAIN tbl}

\* ScanCommand with FilterExpression AwsAccountName = :accountName
Scan(tbl, accountName) ==
    {tbl[k] : k \in {kk \in DOMAIN tbl :
                        /\ "AwsAccountName" \in DOMAIN tbl[kk]
                        /\ tbl[kk].AwsAccountName = accountName}}

----------------------------------------------------------------------------
(* Events delivered to the handlers *)

AccountNames == {"n1"}
AccountIds == {"111"}

Pair(k, v) == [key |-> k, value |-> v]

\* requestParameters.provisioningParameters of a ProvisionProduct event, with
\* and without the AccountName parameter
ParameterLists ==
    {<<Pair("AccountName", n), Pair("AccountEmail", "e")>> : n \in AccountNames}
    \cup {<<Pair("AccountEmail", "e")>>}

ProvisionEvents ==
    [source : {"aws.servicecatalog"}, eventName : {"ProvisionProduct"},
     tags : {<<Pair("ps:accountId", t), Pair("ps:environment", e)>> :
                t \in TenantIds, e \in Environments},
     provisioningParameters : ParameterLists,
     status : {"CREATED", "FAILED"}]
    \cup [source : {"aws.servicecatalog"}, eventName : {"ProvisionProduct"},
          tags : {<<Pair("ps:accountId", "t1")>>, <<Pair("ps:environment", "Dev")>>,
                  <<Pair("ps:accountId", "t1"), Pair("ps:environment", "")>>},
          provisioningParameters : {<<Pair("AccountName", "n1")>>},
          status : {"CREATED"}]
    \cup [source : {"aws.servicecatalog"}, eventName : {"ProvisionProduct"},
          tags : {<<Pair("ps:accountId", "t1"), Pair("ps:environment", "Dev")>>},
          provisioningParameters : {<<Pair("AccountName", "n1")>>},
          status : {Undefined}]
    \cup [source : {"aws.servicecatalog"}, eventName : {"UpdateProvisionedProduct"},
          tags : {<< >>}, provisioningParameters : {<< >>}, status : {Undefined}]
    \cup [source : {"aws.controltower"}, eventName : {"ProvisionProduct"},
          tags : {<<Pair("ps:accountId", "t1"), Pair("ps:environment", "Dev")>>},
          provisioningParameters : {<<Pair("AccountName", "n1")>>},
          status : {"CREATED"}]

AccountEvents ==
    [source : {"aws.controltower"}, eventName : {"CreateManagedAccount"},
     state : {"SUCCEEDED", "FAILED"},
     accountId : AccountIds \cup {Undefined},
     accountName : AccountNames \cup {Undefined}]
    \cup [source : {"aws.controltower"}, eventName : {"UpdateManagedAccount"},
          state : {Undefined}, accountId : {Undefined}, accountName : {Undefined}]
    \cup [source : {"aws.organizations"}, eventName : {"CreateManagedAccount"},
          state : {"SUCCEEDED"}, accountId : {"111"}, accountName : {"n1"}]

\* stack-id strings, as their characters grouped into tokens
StackIdOf(accountId) ==
    <<"arn", ":", "aws", ":", "cloudformation", ":", "eu-west-1", ":",
      accountId, ":", "stack/StackSet-PageSuiteRole">>

\* A well-formed stack-id, one of four segments and a missing one ('')
StackIds ==
    {StackIdOf(a) : a \in AccountIds}
    \cup {<<"arn", ":", "aws", ":", "cloudformation", ":", "eu-west-1">>, << >>}

StatusDetails ==
    {[status |-> s, detailed |-> d] :
        s \in {"FAILED"}, d \in {"SUCCEEDED", Undefined}}

RoleEvents ==
    [source : {"aws.cloudformation"},
     detailType : {"CloudFormation StackSet StackInstance Status Change"},
     stackId : StackIds, statusDetails : StatusDetails]
    \cup [source : {"aws.cloudformation"},
          detailType : {"CloudFormation Stack Status Change"},
          stackId : {<< >>}, statusDetails : {[status |-> Undefined, detailed |-> Undefined]}]
    \cup [source : {"aws.controltower"},
          detailType : {"CloudFormation StackSet StackInstance Status Change"},
          stackId : {StackIdOf("111")},
          statusDetails : {[status |-> "FAILED", detailed |-> "SUCCEEDED"]}]

\* DescribeAccount responses: no Account, an Account without Name, or a name
DescribeAccountResponses ==
    {<< >>, <<[Name |-> Undefined]>>} \cup {<<[Name |-> n]>> : n \in AccountNames}

----------------------------------------------------------------------------
(* provision-product handler *)

\* ProvisionRecognised without the check of the event's source.
ProvisionRecognisedByName(ev) == ev.eventName = "ProvisionProduct"

ProvisionRecognised(ev) ==
    ev.source = "aws.servicecatalog" /\ ev.eventName = "ProvisionProduct"

PsAccountId(ev) == FindValue(ev.tags, "ps:accountId")
PsEnvironment(ev) == FindValue(ev.tags, "ps:environment")

\* MissingTags that asks for both tags to be missing.
MissingBothTags(ev) == ~Truthy(PsAccountId(ev)) /\ ~Truthy(PsEnvironment(ev))

MissingTags(ev) == ~Truthy(PsAccountId(ev)) \/ ~Truthy(PsEnvironment(ev))

\* ProvisionStatus without the remap of CREATED.
ProvisionStatusVerbatim(rawStatus) == OrElse(rawStatus, "UNKNOWN")

\* Remap CREATED -> IN_PROGRESS, anything else as it comes (UNKNOWN if absent)
ProvisionStatus(rawStatus) ==
    IF OrElse(rawStatus, "UNKNOWN") = "CREATED" THEN "IN_PROGRESS"
    ELSE OrElse(rawStatus, "UNKNOWN")

\* ProvisionUpdate that also resets AwsAccountId.
ProvisionUpdateResetsId(ev, ts) ==
    [Key |-> KeyOf(PsAccountId(ev), PsEnvironment(ev)),
     Set |-> [AwsAccountStatus |-> ProvisionStatus(ev.status),
              AwsAccountName |->
                  OrElse(FindValue(ev.provisioningParameters, "AccountName"), ""),
              AwsAccountId |-> "",
              LastModified |-> ts]]

\* The UpdateCommand input of handleProvisionProduct
ProvisionUpdate(ev, ts) ==
    [Key |-> KeyOf(PsAccountId(ev), PsEnvironment(ev)),
     Set |-> [AwsAccountStatus |-> ProvisionStatus(ev.status),
              AwsAccountName |->
                  OrElse(FindValue(ev.provisioningParameters, "AccountName"), ""),
              LastModified |-> ts]]

----------------------------------------------------------------------------
(* create-managed-account handler *)

AccountRecognised(ev) ==
    ev.source = "aws.controltower" /\ ev.eventName = "CreateManagedAccount"

\* AccountStatus without the remap of SUCCEEDED.
AccountStatusVerbatim(state) == OrElse(state, "")

\* Remap SUCCEEDED -> READY
AccountStatus(state) ==
    IF OrElse(state, "") = "SUCCEEDED" THEN "READY" ELSE OrElse(state, "")

\* AccountMatch without the check for more than one item.
AccountMatchTakesFirst(Items) ==
    IF Cardinality(Items) = 0 THEN "none" ELSE "one"

\* What the handler makes of its scan results
AccountMatch(Items) ==
    IF Cardinality(Items) = 0 THEN "none"
    ELSE IF Cardinality(Items) > 1 THEN "many"
    ELSE "one"

\* AccountUpdate that also SETs PK, from the AWS account id.
AccountUpdateSetsKey(ev, item, ts) ==
    [Key |-> [PK |-> item.PK, SK |-> item.SK],
     Set |-> [PK |-> "PS#" \o OrElse(ev.accountId, ""),
              AwsAccountId |-> OrElse(ev.accountId, ""),
              AwsAccountStatus |-> AccountStatus(ev.state),
              LastModified |-> ts]]

\* AccountUpdate that leaves AwsAccountId out of the SET.
AccountUpdateWithoutId(ev, item, ts) ==
    [Key |-> [PK |-> item.PK, SK |-> item.SK],
     Set |-> [AwsAccountStatus |-> AccountStatus(ev.state),
              LastModified |-> ts]]

\* The UpdateCommand input of handleCreateManagedAccount for the scanned item
AccountUpdate(ev, item, ts) ==
    [Key |-> [PK |-> item.PK, SK |-> item.SK],
     Set |-> [AwsAccountId |-> OrElse(ev.accountId, ""),
              AwsAccountStatus |-> AccountStatus(ev.state),
              LastModified |-> ts]]

----------------------------------------------------------------------------
(* stackset-instance-status handler *)

RoleRecognised(ev) ==
    /\ ev.source = "aws.cloudformation"
    /\ ev.detailType = "CloudFormation StackSet StackInstance Status Change"

StackIdParts(ev) == Split(ev.stackId)

\* InvalidStackId with the bound one too low.
InvalidStackIdUnderFour(ev) == Len(StackIdParts(ev)) < 4

InvalidStackId(ev) == Len(StackIdParts(ev)) < 5

StackAccountId(ev) == StackIdParts(ev)[5]

\* StackSetStatus that reads status only.
StackSetStatusOnly(ev) == OrElse(ev.statusDetails.status, "")

\* detailed-status if available, else status, else ''
StackSetStatus(ev) ==
    OrElse(OrElse(ev.statusDetails.detailed, ev.statusDetails.status), "")

\* Only SUCCEEDED -> READY, rest as is
RoleStatus(stackSetStatus) ==
    IF stackSetStatus = "SUCCEEDED" THEN "READY" ELSE stackSetStatus

RoleArn(accountId) == "arn:aws:iam::" \o accountId \o ":role/PageSuiteRole"

\* NoAccountName that tests !Account only.
NoAccount(response) == response = << >>

\* !Account || !Account.Name
NoAccountName(response) ==
    response = << >> \/ ~Truthy(response[1].Name)

\* What the handler makes of its scan results
RoleMatch(Items) ==
    IF Cardinality(Items) = 0 THEN "none"
    ELSE IF Cardinality(Items) > 1 THEN "many"
    ELSE "one"

\* AlreadyDeployed without the check: the update is always issued.
AlreadyDeployedIgnored(roleStatus, item) == FALSE

\* Skip the write when the role is already recorded as deployed
AlreadyDeployed(roleStatus, item) ==
    /\ roleStatus = "READY"
    /\ Attr(item, "PageSuiteRoleStatus") = "READY"
    /\ Truthy(Attr(item, "PageSuiteRoleArn"))

\* RoleUpdate with the status compared against the item's PageSuiteRoleStatus
\* instead of 'SUCCEEDED'.
RoleUpdateComparesItem(ev, item, ts) ==
    LET roleStatus == IF StackSetStatus(ev) = Attr(item, "PageSuiteRoleStatus")
                      THEN "READY" ELSE StackSetStatus(ev)
    IN  [Key |-> [PK |-> item.PK, SK |-> item.SK],
         Set |-> IF roleStatus = "READY"
                 THEN [PageSuiteRoleArn |-> RoleArn(StackAccountId(ev)),
                       PageSuiteRoleStatus |-> roleStatus,
                       LastModified |-> ts]
                 ELSE [PageSuiteRoleStatus |-> roleStatus,
                       LastModified |-> ts]]

\* RoleUpdate that builds the ARN from the item's AwsAccountId instead of the
\* account id of the stack-id.
RoleUpdateFromItem(ev, item, ts) ==
    LET roleStatus == RoleStatus(StackSetStatus(ev))
    IN  [Key |-> [PK |-> item.PK, SK |-> item.SK],
         Set |-> IF roleStatus = "READY"
                 THEN [PageSuiteRoleArn |-> RoleArn(Attr(item, "AwsAccountId")),
                       PageSuiteRoleStatus |-> roleStatus,
                       LastModified |-> ts]
                 ELSE [PageSuiteRoleStatus |-> roleStatus,
                       LastModified |-> ts]]

\* The UpdateCommand input of handleStackSetInstanceStatusChange
RoleUpdate(ev, item, ts) ==
    LET roleStatus == RoleStatus(StackSetStatus(ev))
    IN  [Key |-> [PK |-> item.PK, SK |-> item.SK],
         Set |-> IF roleStatus = "READY"
                 THEN [PageSuiteRoleArn |-> RoleArn(StackAccountId(ev)),
                       PageSuiteRoleStatus |-> roleStatus,
                       LastModified |-> ts]
                 ELSE [PageSuiteRoleStatus |-> roleStatus,
                       LastModified |-> ts]]

----------------------------------------------------------------------------
(* A handler run to completion on a table, its store calls succeeding *)

\* handler + handleProvisionProduct: the table it leaves
ProvisionHandled(tbl, ev, ts) ==
    IF ~ProvisionRecognised(ev) \/ MissingTags(ev) THEN tbl
    ELSE LET update == ProvisionUpdate(ev, ts)
         IN  UpdateItem(tbl, update.Key, update.Set)

\* handler + handleCreateManagedAccount: the table it leaves
AccountHandled(tbl, ev, ts) ==
    IF ~AccountRecognised(ev) THEN tbl
    ELSE LET Items == Scan(tbl, OrElse(ev.accountName, ""))
         IN  IF AccountMatch(Items) # "one" THEN tbl
             ELSE LET update == AccountUpdate(ev, CHOOSE item \in Items : TRUE, ts)
                  IN  UpdateItem(tbl, update.Key, update.Set)

\* handler + handleStackSetInstanceStatusChange, DescribeAccount answering
\* `response`: the table it leaves
RoleHandled(tbl, ev, response, ts) ==
    IF ~RoleRecognised(ev) \/ InvalidStackId(ev) \/ NoAccountName(response) THEN tbl
    ELSE LET Items == Scan(tbl, response[1].Name)
         IN  IF RoleMatch(Items) # "one" THEN tbl
             ELSE IF AlreadyDeployed(RoleStatus(StackSetStatus(ev)),
                                     CHOOSE item \in Items : TRUE)
             THEN tbl
             ELSE LET update == RoleUpdate(ev, CHOOSE item \in Items : TRUE, ts)
                  IN  UpdateItem(tbl, update.Key, update.Set)

----------------------------------------------------------------------------
(* State machine *)

Line(h, m) == [handler |-> h, msg |-> m]

\* An invocation suspended at `await dynamoDbDocClient.send(new UpdateCommand)`:
\* its event, the items it scanned (none for provision-product) and the
\* UpdateCommand input it built.
Invocation(h, ev, items, update) ==
    [handler |-> h, ev |-> ev, Items |-> items,
     Key |-> update.Key, Set |-> update.Set]

Init ==
    /\ table = << >>
    /\ now = 0
    /\ inflight = EmptyBag
    /\ log = Line("none", "none")
    /\ redo = {}

CanStart == BagCardinality(inflight) < MaxInFlight

\* History of sequential redelivery.  redo holds the event whose update was
\* applied last and the key it was applied to, for as long as nothing but
\* deliveries of that same event has run since: phase "applied" after the
\* update, "redelivering" while a redelivery is the only invocation in
\* flight, "redelivered" once a redelivery has completed.
IsRedelivery(ev) == inflight = EmptyBag /\ \E r \in redo : r.ev = ev

Applied(ev, key) == {[ev |-> ev, key |-> key, phase |-> "applied"]}

Phase(ph) == {[r EXCEPT !.phase = ph] : r \in redo}

Redelivering == \E r \in redo : r.phase = "redelivering"

\* redo after a delivery of ev that ends without an UpdateCommand
RedoOnReturn(ev) == IF IsRedelivery(ev) THEN Phase("redelivered") ELSE {}

\* redo after a delivery of ev that suspends at its UpdateCommand
RedoOnSuspend(ev) == IF IsRedelivery(ev) THEN Phase("redelivering") ELSE {}

\* new Date(): the clock is read at a later instant every time, and at most
\* MaxClock times.
ReadClock == now < MaxClock /\ now' = now + 1

\* test-account-creation main(): the conditional Put of the initial item.
CreateAccount(key) ==
    /\ table' = PutItem(table, key, InitialItem(key, now))
    /\ log' = Line("test-account-creation",
                   IF PutCondition(table, key) THEN "Creating account"
                   ELSE "ConditionalCheckFailedException")
    /\ redo' = {}
    /\ ReadClock
    /\ UNCHANGED inflight

\* provision-product handler, up to the await of its UpdateCommand.
ProvisionProduct(ev) ==
    /\ CanStart
    /\ IF ~ProvisionRecognised(ev)
       THEN /\ log' = Line("provision-product", "Unexpected event")
            /\ redo' = RedoOnReturn(ev)
            /\ UNCHANGED <<inflight, now>>
       ELSE IF MissingTags(ev)
       THEN /\ log' = Line("provision-product", "Missing required tags")
            /\ redo' = RedoOnReturn(ev)
            /\ UNCHANGED <<inflight, now>>
       ELSE /\ inflight' = inflight (+) SetToBag(
                {Invocation("provision-product", ev, {}, ProvisionUpdate(ev, now))})
            /\ log' = Line("provision-product", "Tags found")
            /\ redo' = RedoOnSuspend(ev)
            /\ ReadClock
    /\ UNCHANGED table

\* create-managed-account handler: the scan and what follows it, up to the
\* await of its UpdateCommand.
CreateManagedAccount(ev) ==
    /\ CanStart
    /\ IF ~AccountRecognised(ev)
       THEN /\ log' = Line("create-managed-account", "Unexpected event")
            /\ redo' = RedoOnReturn(ev)
            /\ UNCHANGED <<inflight, now>>
       ELSE LET Items == Scan(table, OrElse(ev.accountName, ""))
            IN  IF AccountMatch(Items) = "none"
                THEN /\ log' = Line("create-managed-account", "No DynamoDB item found")
                     /\ redo' = RedoOnReturn(ev)
                     /\ UNCHANGED <<inflight, now>>
                ELSE IF AccountMatch(Items) = "many"
                THEN /\ log' = Line("create-managed-account", "ERROR: Found items")
                     /\ redo' = RedoOnReturn(ev)
                     /\ UNCHANGED <<inflight, now>>
                ELSE /\ inflight' = inflight (+) SetToBag(
                         {Invocation("create-managed-account", ev, Items,
                              AccountUpdate(ev, CHOOSE item \in Items : TRUE, now))})
                     /\ log' = Line("create-managed-account", "Event received")
                     /\ redo' = RedoOnSuspend(ev)
                     /\ ReadClock
    /\ UNCHANGED table

\* stackset-instance-status handler after DescribeAccount has answered with
\* `response`: the scan and what follows it, up to the await of its
\* UpdateCommand.
AfterDescribeAccount(ev, response) ==
    IF NoAccountName(response)
    THEN /\ log' = Line("stackset-instance-status", "Could not retrieve account name")
         /\ redo' = RedoOnReturn(ev)
         /\ UNCHANGED <<inflight, now>>
    ELSE LET Items == Scan(table, response[1].Name)
         IN  IF RoleMatch(Items) = "none"
             THEN /\ log' = Line("stackset-instance-status", "No DynamoDB item found")
                  /\ redo' = RedoOnReturn(ev)
                  /\ UNCHANGED <<inflight, now>>
             ELSE IF RoleMatch(Items) = "many"
             THEN /\ log' = Line("stackset-instance-status", "ERROR: Found items")
                  /\ redo' = RedoOnReturn(ev)
                  /\ UNCHANGED <<inflight, now>>
             ELSE IF AlreadyDeployed(RoleStatus(StackSetStatus(ev)),
                                     CHOOSE item \in Items : TRUE)
             THEN /\ log' = Line("stackset-instance-status", "skipping update")
                  /\ redo' = RedoOnReturn(ev)
                  /\ UNCHANGED <<inflight, now>>
             ELSE /\ inflight' = inflight (+) SetToBag(
                      {Invocation("stackset-instance-status", ev, Items,
                           RoleUpdate(ev, CHOOSE item \in Items : TRUE, now))})
                  /\ log' = Line("stackset-instance-status", "Event received")
                  /\ redo' = RedoOnSuspend(ev)
                  /\ ReadClock

\* stackset-instance-status handler: stack-id parsing, the DescribeAccount
\* call and what follows it.
StackSetInstanceStatusChange(ev) ==
    /\ CanStart
    /\ IF ~RoleRecognised(ev)
       THEN /\ log' = Line("stackset-instance-status", "Unexpected event")
            /\ redo' = RedoOnReturn(ev)
            /\ UNCHANGED <<inflight, now>>
       ELSE IF InvalidStackId(ev)
       THEN /\ log' = Line("stackset-instance-status", "Invalid stack-id format")
            /\ redo' = RedoOnReturn(ev)
            /\ UNCHANGED <<inflight, now>>
       ELSE \E response \in DescribeAccountResponses :
                AfterDescribeAccount(ev, response)
    /\ UNCHANGED table

\* A DescribeAccount or Scan call of a handler rejects: the catch block logs.
LookupThrows(h) ==
    /\ CanStart
    /\ h \in {"create-managed-account", "stackset-instance-status"}
    /\ log' = Line(h, "Error handling event")
    /\ redo' = {}
    /\ UNCHANGED <<table, now, inflight>>

\* The store applies the UpdateCommand of invocation p, which then returns.
UpdateApplied(p) ==
    /\ BagIn(p, inflight)
    /\ table' = UpdateItem(table, p.Key, p.Set)
    /\ inflight' = inflight (-) SetToBag({p})
    /\ log' = Line(p.handler, "Updated DynamoDB")
    /\ redo' = IF Redelivering THEN Phase("redelivered") ELSE Applied(p.ev, p.Key)
    /\ UNCHANGED now

\* UpdateThrows whose catch block sends the update again: the invocation
\* stays suspended at its UpdateCommand.
UpdateThrowsAndRetries(p) ==
    /\ BagIn(p, inflight)
    /\ log' = Line(p.handler, "Error handling event")
    /\ redo' = {}
    /\ UNCHANGED <<table, now, inflight>>

\* The UpdateCommand of invocation p rejects: the catch block logs.
UpdateThrows(p) ==
    /\ BagIn(p, inflight)
    /\ inflight' = inflight (-) SetToBag({p})
    /\ log' = Line(p.handler, "Error handling event")
    /\ redo' = IF Redelivering THEN Phase("redelivered") ELSE {}
    /\ UNCHANGED <<table, now>>

Next ==
    \/ \E key \in Keys : CreateAccount(key)
    \/ \E ev \in ProvisionEvents : ProvisionProduct(ev)
    \/ \E ev \in AccountEvents : CreateManagedAccount(ev)
    \/ \E ev \in RoleEvents : StackSetInstanceStatusChange(ev)
    \/ \E h \in {"create-managed-account", "stackset-instance-status"} :
          LookupThrows(h)
    \/ \E p \in BagToSet(inflight) : UpdateApplied(p)
    \/ \E p \in BagToSet(inflight) : UpdateThrows(p)

Spec == Init /\ [][Next]_vars

(***************************************************************************)
(* Deliveries handled one at a time: a signal is taken up only when no     *)
(* invocation is suspended at its update, and the update it sends settles  *)
(* before the next signal.  Every behaviour of SpecInTurn is a behaviour   *)
(* of Spec.                                                                *)
(***************************************************************************)
Idle == inflight = EmptyBag

NextInTurn ==
    \/ Idle /\ \E key \in Keys : CreateAccount(key)
    \/ Idle /\ \E ev \in ProvisionEvents : ProvisionProduct(ev)
    \/ Idle /\ \E ev \in AccountEvents : CreateManagedAccount(ev)
    \/ Idle /\ \E ev \in RoleEvents : StackSetInstanceStatusChange(ev)
    \/ Idle /\ \E h \in {"create-managed-account", "stackset-instance-status"} :
          LookupThrows(h)
    \/ \E p \in BagToSet(inflight) : UpdateApplied(p)
    \/ \E p \in BagToSet(inflight) : UpdateThrows(p)

SpecInTurn == Init /\ [][NextInTurn]_vars

(***************************************************************************)
(* The same, started after test-account-creation has inserted the item of  *)
(* tenant t1 at an instant before the first clock reading of a handler.    *)
(***************************************************************************)
InitAfterCreation ==
    /\ table = (KeyOf("t1", "Dev") :> InitialItem(KeyOf("t1", "Dev"), -1))
    /\ now = 0
    /\ inflight = EmptyBag
    /\ log = Line("test-account-creation", "Creating account")
    /\ redo = {}

SpecAfterCreation == InitAfterCreation /\ [][NextInTurn]_vars

(***************************************************************************)
(* SpecInTurn with the store answering every UpdateCommand: the awaited     *)
(* send() settles, by resolving or by rejecting.                            *)
(***************************************************************************)
UpdateSettles == \E p \in BagToSet(inflight) : UpdateApplied(p) \/ UpdateThrows(p)

FairSpecInTurn == SpecInTurn /\ WF_vars(UpdateSettles)

----------------------------------------------------------------------------
(* Properties *)

RoleArnOf(k) == Attr(table[k], "PageSuiteRoleArn")
RoleStatusOf(k) == Attr(table[k], "PageSuiteRoleStatus")
AccountStatusOf(k) == Attr(table[k], "AwsAccountStatus")

\* The attributes of an item other than its key and LastModified
Projection(item) ==
    [a \in Attributes \ {"LastModified"} |-> Attr(item, a)]

\* A value of an event, the empty string when the event does not carry it
ValueOf(v) == IF v = Undefined THEN "" ELSE v

\* Keys whose items carry the account name n
Sharing(n) == {k \in DOMAIN table : Attr(table[k], "AwsAccountName") = n}

\* C1: every item has a non-empty PageSuiteRoleArn if and only if its
\* PageSuiteRoleStatus is READY.
RoleArnIffReady ==
    \A k \in DOMAIN table : Truthy(RoleArnOf(k)) <=> RoleStatusOf(k) = "READY"

\* C2: a non-empty AwsAccountId stays non-empty and a non-empty
\* AwsAccountName stays non-empty, whatever is processed next.
IdentityNeverCleared ==
    [][\A k \in DOMAIN table :
        /\ Truthy(Attr(table[k], "AwsAccountId"))
              => Truthy(Attr(table'[k], "AwsAccountId"))
        /\ Truthy(Attr(table[k], "AwsAccountName"))
              => Truthy(Attr(table'[k], "AwsAccountName"))]_vars

\* C3: a CreateManagedAccount event whose account name is carried by two or
\* more items, and a StackSet status change whose account resolves to such a
\* name, is reported as an ambiguous match and issues no update: the table
\* and the pending UpdateCommands are as before.
AmbiguousMatchWithholdsUpdate ==
    [][(\E n \in AccountNames \cup {""} : Cardinality(Sharing(n)) >= 2) =>
       /\ \A ev \in AccountEvents :
            /\ AccountRecognised(ev)
            /\ Cardinality(Sharing(OrElse(ev.accountName, ""))) >= 2
            /\ CreateManagedAccount(ev)
            => /\ table' = table
               /\ inflight' = inflight
               /\ log' = Line("create-managed-account", "ERROR: Found items")
       /\ \A ev \in RoleEvents, response \in DescribeAccountResponses :
            /\ RoleRecognised(ev)
            /\ ~InvalidStackId(ev)
            /\ ~NoAccountName(response)
            /\ Cardinality(Sharing(response[1].Name)) >= 2
            /\ CanStart
            /\ AfterDescribeAccount(ev, response)
            => /\ table' = table
               /\ inflight' = inflight
               /\ log' = Line("stackset-instance-status", "ERROR: Found items")]_vars

AmbiguousMatchReported ==
    /\ log = Line("create-managed-account", "ERROR: Found items")
    /\ \E n \in AccountNames : Cardinality(Sharing(n)) >= 2

\* C4: only the creation script inserts keys: processing an event never
\* enlarges the set of stored keys (a ProvisionProduct event for a key that
\* is not stored leaves the table as it is).
OnlyCreationInsertsKeys ==
    [][DOMAIN table' = DOMAIN table \/ log'.handler = "test-account-creation"]_vars

\* C5: a creation attempt for a stored key fails and leaves the table as it
\* is, whatever was applied to the item before.
CreationNeverOverwrites ==
    [][\A key \in Keys :
        key \in DOMAIN table /\ CreateAccount(key)
        => /\ table' = table
           /\ log' = Line("test-account-creation", "ConditionalCheckFailedException")]_vars

CreationRefusedForUpdatedItem ==
    /\ log = Line("test-account-creation", "ConditionalCheckFailedException")
    /\ DOMAIN table # {}
    /\ \A k \in DOMAIN table : AccountStatusOf(k) # "PENDING"

\* C6: an AwsAccountStatus of READY and a PageSuiteRoleStatus of READY are
\* final: no step changes either to another value.
ReadyIsFinal ==
    [][\A k \in DOMAIN table :
        /\ AccountStatusOf(k) = "READY"
              => Attr(table'[k], "AwsAccountStatus") = "READY"
        /\ RoleStatusOf(k) = "READY"
              => Attr(table'[k], "PageSuiteRoleStatus") = "READY"]_vars

\* C7: a StackSet SUCCEEDED status change that matches exactly one item, whose
\* PageSuiteRoleStatus is READY and whose PageSuiteRoleArn is non-empty,
\* issues no UpdateCommand: the item, LastModified included, stays as it is.
DeployedRoleIsNotRewritten ==
    [][\A k \in DOMAIN table :
        RoleStatusOf(k) = "READY" /\ Truthy(RoleArnOf(k)) =>
        \A ev \in RoleEvents, response \in DescribeAccountResponses :
            /\ RoleRecognised(ev)
            /\ ~InvalidStackId(ev)
            /\ ~NoAccountName(response)
            /\ StackSetStatus(ev) = "SUCCEEDED"
            /\ Sharing(response[1].Name) = {k}
            /\ CanStart
            /\ AfterDescribeAccount(ev, response)
            => /\ table' = table
               /\ inflight' = inflight
               /\ now' = now]_vars

DeployedRoleSkipped ==
    /\ log = Line("stackset-instance-status", "skipping update")
    /\ \E k \in DOMAIN table : RoleStatusOf(k) = "READY" /\ Truthy(RoleArnOf(k))

\* C8: an event delivered again right after its update was applied, with
\* nothing else processed in between, leaves the item it was applied to with
\* the same status, id, name, role status and role ARN.
RedeliveryKeepsItem ==
    [][\A r \in redo' :
        r.phase \in {"redelivering", "redelivered"}
        => Projection(table'[r.key]) = Projection(table[r.key])]_vars

RedeliveryApplied ==
    /\ \E r \in redo : r.phase = "redelivered"
    /\ log = Line("create-managed-account", "Updated DynamoDB")

\* C9: once a handler has updated an item, its LastModified never decreases.
UpdatedSinceCreation(k) == table[k] # InitialItem(k, table[k].LastModified)

LastModifiedNeverDecreases ==
    [][\A k \in DOMAIN table :
        UpdatedSinceCreation(k)
        => table'[k].LastModified >= table[k].LastModified]_vars

\* C10: an invocation whose scanned item is no longer the stored item does
\* not get its update applied: when it completes, the table is as before.
StaleUpdateRejected ==
    [][\A p \in BagToSet(inflight) :
        /\ p.Items # {}
        /\ table[p.Key] \notin p.Items
        /\ inflight' = inflight (-) SetToBag({p})
        => table' = table]_vars

AccountAttributes == {"AwsAccountId", "AwsAccountStatus", "AwsAccountName"}
RoleAttributes == {"PageSuiteRoleStatus", "PageSuiteRoleArn"}

\* The step completes invocation p with its update applied.
Writes(p) ==
    /\ inflight' = inflight (-) SetToBag({p})
    /\ log' = Line(p.handler, "Updated DynamoDB")

\* C11: no update is lost between a stackset-instance-status invocation and
\* a concurrent provision-product or create-managed-account invocation on
\* the same item: whenever one of them writes, the item holds every attribute
\* of its own UpdateCommand, and the attributes of the other group (account
\* attributes for a role write, role attributes for an account write) are
\* those the item held, whoever wrote them and however stale the writer's
\* scan is.
NoUpdateLostBetweenRoleAndAccount ==
    [][\A p \in BagToSet(inflight) :
        p.Key \in DOMAIN table /\ Writes(p) =>
        /\ \A a \in DOMAIN p.Set : table'[p.Key][a] = p.Set[a]
        /\ \A a \in (IF p.handler = "stackset-instance-status"
                      THEN AccountAttributes ELSE RoleAttributes) :
              Attr(table'[p.Key], a) = Attr(table[p.Key], a)]_vars

\* A race has run to its end: the clock was read three times, by the
\* ProvisionProduct that stored the name (0), and by the role and the account
\* invocation (1 and 2); the item carries the timestamp 1, so the invocation
\* that read the clock last wrote first and the other one wrote over an item
\* it had scanned before that write.  Both writes are in the item.
BothWritesKeptAfterRace ==
    /\ now = 3
    /\ inflight = EmptyBag
    /\ \E k \in DOMAIN table :
          /\ Attr(table[k], "AwsAccountName") = "n1"
          /\ Attr(table[k], "AwsAccountId") = "111"
          /\ Attr(table[k], "AwsAccountStatus") = "READY"
          /\ Attr(table[k], "PageSuiteRoleStatus") = "READY"
          /\ Attr(table[k], "PageSuiteRoleArn") = RoleArn("111")
          /\ table[k].LastModified = 1

\* The AwsAccountStatus the claim expects of a ProvisionProduct event
ExpectedProvisionStatus(ev) ==
    IF ev.status = "CREATED" THEN "IN_PROGRESS" ELSE ev.status

\* C12, as stated: the update of a ProvisionProduct event with both tags
\* stores IN_PROGRESS for the raw status CREATED and the raw status as it
\* comes otherwise, and no item ever holds the status CREATED.
ProvisionStoresRawStatus ==
    [][/\ \A p \in BagToSet(inflight) :
            p.handler = "provision-product" /\ Writes(p)
            => Attr(table'[p.Key], "AwsAccountStatus") = ExpectedProvisionStatus(p.ev)
       /\ \A k \in DOMAIN table' : Attr(table'[k], "AwsAccountStatus") # "CREATED"]_vars

\* C12, amended: the update of a ProvisionProduct event with both tags stores
\* IN_PROGRESS for the raw status CREATED, UNKNOWN for an event without a
\* (non-empty) status and the raw status as it comes otherwise, and no item
\* ever holds the status CREATED.
ProvisionStoresRawStatusOrUnknown ==
    [][/\ \A p \in BagToSet(inflight) :
            p.handler = "provision-product" /\ Writes(p)
            => Attr(table'[p.Key], "AwsAccountStatus") =
                  IF Truthy(p.ev.status) THEN ExpectedProvisionStatus(p.ev)
                  ELSE "UNKNOWN"
       /\ \A k \in DOMAIN table' : Attr(table'[k], "AwsAccountStatus") # "CREATED"]_vars

\* A CREATED event and an event without status have both been applied.
ProvisionStatusesStored ==
    /\ log = Line("provision-product", "Updated DynamoDB")
    /\ \E r \in redo : /\ r.phase = "applied"
                       /\ r.ev.status = "CREATED"
                       /\ AccountStatusOf(r.key) = "IN_PROGRESS"
    /\ \E k \in DOMAIN table : AccountStatusOf(k) = "UNKNOWN"

\* The states of the provisioning scenario for account name n and account id:
\* as created, after ProvisionProduct, after CreateManagedAccount and after
\* the StackSet status change.
AsCreated == Projection(InitialItem(KeyOf("t1", "Dev"), 0))
AsProvisioned(n) ==
    [AsCreated EXCEPT !.AwsAccountStatus = "IN_PROGRESS", !.AwsAccountName = n]
AsAccountCreated(n, id) ==
    [AsProvisioned(n) EXCEPT !.AwsAccountId = id, !.AwsAccountStatus = "READY"]
AsRoleDeployed(n, id) ==
    [AsAccountCreated(n, id) EXCEPT !.PageSuiteRoleStatus = "READY",
                                    !.PageSuiteRoleArn = RoleArn(id)]

\* The events of the scenario
IsProvisionOf(ev, k, n) ==
    /\ ProvisionRecognised(ev) /\ ~MissingTags(ev)
    /\ KeyOf(PsAccountId(ev), PsEnvironment(ev)) = k
    /\ ev.status = "CREATED"
    /\ FindValue(ev.provisioningParameters, "AccountName") = n
IsAccountCreationOf(ev, n, id) ==
    /\ AccountRecognised(ev)
    /\ ev.state = "SUCCEEDED" /\ ev.accountId = id /\ ev.accountName = n
IsRoleDeploymentOf(ev, id) ==
    /\ RoleRecognised(ev) /\ ~InvalidStackId(ev)
    /\ StackAccountId(ev) = id
    /\ StackSetStatus(ev) = "SUCCEEDED"

\* The step suspends a handler at the UpdateCommand for key k built from ev.
Suspends(ev, k) ==
    \E p \in BagToSet(inflight') :
        p.ev = ev /\ p.Key = k /\ inflight' = inflight (+) SetToBag({p})

\* C13: for an item created PENDING/PENDING whose account name n no other
\* item carries, each event of the sequence ProvisionProduct(CREATED, n),
\* CreateManagedAccount(id, n, SUCCEEDED), StackSet SUCCEEDED for account id
\* (DescribeAccount answering n) reaches its UpdateCommand, and the update
\* takes the item from the state the previous one left to the next:
\* IN_PROGRESS with the name n, then the id with READY, then the role READY
\* with the ARN arn:aws:iam::<id>:role/PageSuiteRole.
ProvisioningScenario ==
    [][\A k \in DOMAIN table, n \in AccountNames, id \in AccountIds :
        /\ Projection(table[k]) = AsCreated /\ Sharing(n) = {} =>
              \A ev \in ProvisionEvents :
                  IsProvisionOf(ev, k, n) /\ ProvisionProduct(ev) => Suspends(ev, k)
        /\ Projection(table[k]) = AsProvisioned(n) /\ Sharing(n) = {k} =>
              \A ev \in AccountEvents :
                  IsAccountCreationOf(ev, n, id) /\ CreateManagedAccount(ev)
                  => Suspends(ev, k)
        /\ Projection(table[k]) = AsAccountCreated(n, id) /\ Sharing(n) = {k} =>
              \A ev \in RoleEvents :
                  /\ IsRoleDeploymentOf(ev, id)
                  /\ CanStart
                  /\ AfterDescribeAccount(ev, <<[Name |-> n]>>)
                  => Suspends(ev, k)
        /\ \A p \in BagToSet(inflight) :
              p.Key = k /\ Writes(p) /\ Sharing(n) \subseteq {k} =>
              /\ p.handler = "provision-product" /\ IsProvisionOf(p.ev, k, n)
                    /\ Projection(table[k]) = AsCreated
                 => Projection(table'[k]) = AsProvisioned(n)
              /\ p.handler = "create-managed-account"
                    /\ IsAccountCreationOf(p.ev, n, id)
                    /\ Projection(table[k]) = AsProvisioned(n)
                 => Projection(table'[k]) = AsAccountCreated(n, id)
              /\ p.handler = "stackset-instance-status"
                    /\ IsRoleDeploymentOf(p.ev, id)
                    /\ Projection(table[k]) = AsAccountCreated(n, id)
                 => Projection(table'[k]) = AsRoleDeployed(n, id)]_vars

\* The scenario has run: the item created before the first handler ran has
\* been updated three times, last by the StackSet status change.
ScenarioCompleted ==
    /\ now = 3
    /\ log = Line("stackset-instance-status", "Updated DynamoDB")
    /\ \E k \in DOMAIN table :
          /\ Projection(table[k]) = AsRoleDeployed("n1", "111")
          /\ table[k].LastModified = 2
          /\ \E r \in redo : r.key = k /\ IsRoleDeploymentOf(r.ev, "111")

\* C14: a StackSet status change whose stack-id (the empty string when it is
\* missing) splits at ':' into fewer than 5 segments is reported as an
\* invalid stack-id and ends there: no DescribeAccount outcome is reported,
\* no UpdateCommand is pending, the clock is not read and every item is as
\* it was.
MalformedStackIdDropped ==
    [][\A ev \in RoleEvents :
        /\ log'.handler = "stackset-instance-status"
        /\ RoleRecognised(ev)
        /\ Len(Split(ev.stackId)) < 5
        /\ StackSetInstanceStatusChange(ev)
        => /\ table' = table
           /\ inflight' = inflight
           /\ now' = now
           /\ log' = Line("stackset-instance-status", "Invalid stack-id format")]_vars

\* An invalid stack-id has been reported while an item that a well-formed
\* event would have matched and updated is stored.
MalformedStackIdReported ==
    /\ log = Line("stackset-instance-status", "Invalid stack-id format")
    /\ \E k \in DOMAIN table :
          /\ Attr(table[k], "AwsAccountName") \in AccountNames
          /\ RoleStatusOf(k) # "READY"

\* C15: a ProvisionProduct event whose ps:accountId tag or ps:environment
\* tag is absent or empty is dropped: it is reported as missing its tags, no
\* UpdateCommand is pending and every item is as it was.
UntaggedProvisionDropped ==
    [][\A ev \in ProvisionEvents :
        /\ log'.handler = "provision-product"
        /\ ProvisionRecognised(ev)
        /\ \E tag \in {"ps:accountId", "ps:environment"} :
              FindValue(ev.tags, tag) \in {Undefined, ""}
        /\ ProvisionProduct(ev)
        => /\ table' = table
           /\ inflight' = inflight
           /\ now' = now
           /\ log' = Line("provision-product", "Missing required tags")]_vars

UntaggedProvisionReported ==
    /\ log = Line("provision-product", "Missing required tags")
    /\ KeyOf("t1", "Dev") \in DOMAIN table

\* C16: a CreateManagedAccount event whose account name no item carries, and
\* a StackSet status change whose account resolves to such a name, is
\* reported as matching no item and ends there: every item is as it was and
\* no UpdateCommand is left pending, so that only another delivery of the
\* event can apply it.
UnmatchedNameDropped ==
    [][/\ log'.handler = "create-managed-account" =>
          \A ev \in AccountEvents :
            /\ <<ev.source, ev.eventName>> = <<"aws.controltower", "CreateManagedAccount">>
            /\ Sharing(ValueOf(ev.accountName)) = {}
            /\ CreateManagedAccount(ev)
            => /\ UNCHANGED <<table, inflight, now>>
               /\ log' = Line("create-managed-account", "No DynamoDB item found")
       /\ log'.handler = "stackset-instance-status" =>
          \A n \in AccountNames :
            Sharing(n) = {} =>
            \A ev \in RoleEvents :
                /\ <<ev.source, ev.detailType>> =
                      <<"aws.cloudformation",
                        "CloudFormation StackSet StackInstance Status Change">>
                /\ Len(Split(ev.stackId)) >= 5
                /\ CanStart
                /\ AfterDescribeAccount(ev, <<[Name |-> n]>>)
                => /\ UNCHANGED <<table, inflight, now>>
                   /\ log' = Line("stackset-instance-status", "No DynamoDB item found")]_vars

\* A CreateManagedAccount event has found no item while the only items
\* stored are those the creation script inserted, their names not yet set
\* by a ProvisionProduct event.
UnmatchedNameReported ==
    /\ log = Line("create-managed-account", "No DynamoDB item found")
    /\ DOMAIN table # {}
    /\ \A k \in DOMAIN table : Attr(table[k], "AwsAccountName") = ""

\* C17: an event whose source and event type are not the pair a handler
\* recognises is ignored by that handler: it logs the event as unexpected
\* and returns, with every item as it was, no UpdateCommand pending and the
\* clock not read.
UnexpectedEventIgnored ==
    [][/\ \A ev \in ProvisionEvents :
            /\ log'.handler = "provision-product"
            /\ <<ev.source, ev.eventName>> # <<"aws.servicecatalog", "ProvisionProduct">>
            /\ ProvisionProduct(ev)
            => /\ UNCHANGED <<table, inflight, now>>
               /\ log' = Line("provision-product", "Unexpected event")
       /\ \A ev \in AccountEvents :
            /\ log'.handler = "create-managed-account"
            /\ <<ev.source, ev.eventName>> # <<"aws.controltower", "CreateManagedAccount">>
            /\ CreateManagedAccount(ev)
            => /\ UNCHANGED <<table, inflight, now>>
               /\ log' = Line("create-managed-account", "Unexpected event")
       /\ \A ev \in RoleEvents :
            /\ log'.handler = "stackset-instance-status"
            /\ <<ev.source, ev.detailType>> #
                  <<"aws.cloudformation",
                    "CloudFormation StackSet StackInstance Status Change">>
            /\ StackSetInstanceStatusChange(ev)
            => /\ UNCHANGED <<table, inflight, now>>
               /\ log' = Line("stackset-instance-status", "Unexpected event")]_vars

\* An unexpected event has been logged by the provision-product handler
\* while no item is stored: a recognised event would have inserted one.
UnexpectedEventLogged ==
    /\ log = Line("provision-product", "Unexpected event")
    /\ table = << >>

\* The items of a table without their LastModified
Projected(tbl) == [k \in DOMAIN tbl |-> Projection(tbl[k])]

\* The two orders of handling evA and evR (the directory answering n) on
\* tbl, with clock readings ts and ts + 1, leave the same attributes.
SameInEitherOrder(tbl, evA, evR, n, ts) ==
    LET response == <<[Name |-> n]>>
    IN  Projected(RoleHandled(AccountHandled(tbl, evA, ts), evR, response, ts + 1))
        = Projected(AccountHandled(RoleHandled(tbl, evR, response, ts), evA, ts + 1))

\* C18: for an item whose account name n was stored by a ProvisionProduct
\* event and is carried by no other item, a CreateManagedAccount event for n
\* and a StackSet status change for an account that resolves to n, each run
\* to completion, leave the same status, id, name, role status and role ARN
\* in either order; checked for every table an update leaves.  (Second
\* conjunct: an update applied by a handler that ran alone leaves the table
\* that AccountHandled and RoleHandled compute.)
OrderTolerantUpdates ==
    [][table' # table =>
       /\ \A k \in DOMAIN table', n \in AccountNames :
            {kk \in DOMAIN table' : Attr(table'[kk], "AwsAccountName") = n} = {k} =>
            \A evA \in AccountEvents, evR \in RoleEvents :
                AccountRecognised(evA) /\ evA.accountName = n /\ RoleRecognised(evR)
                => SameInEitherOrder(table', evA, evR, n, now')
       /\ \A p \in BagToSet(inflight) :
            Writes(p) /\ p.Items # {} =>
            IF p.handler = "create-managed-account"
            THEN table' = AccountHandled(table, p.ev, p.Set.LastModified)
            ELSE \E response \in DescribeAccountResponses :
                    table' = RoleHandled(table, p.ev, response, p.Set.LastModified)]_vars

\* The two events have been applied out of order to the created and
\* provisioned item: the StackSet status change first, CreateManagedAccount
\* last, with the result of the scenario that applies them in order.
AppliedOutOfOrder ==
    /\ now = 3
    /\ log = Line("create-managed-account", "Updated DynamoDB")
    /\ \E k \in DOMAIN table :
          /\ Projection(table[k]) = AsRoleDeployed("n1", "111")
          /\ table[k].LastModified = 2
          /\ \E r \in redo : r.key = k /\ IsAccountCreationOf(r.ev, "n1", "111")

\* C19: a CreateManagedAccount event whose account name exactly one item
\* carries always reaches its UpdateCommand for that item, and the update
\* sets AwsAccountId to the event's account id and AwsAccountStatus to READY
\* when the event's state is SUCCEEDED and to the state as it comes
\* otherwise.
MatchedAccountEventWrites ==
    [][/\ \A ev \in AccountEvents, k \in DOMAIN table :
            /\ log'.handler = "create-managed-account"
            /\ <<ev.source, ev.eventName>> = <<"aws.controltower", "CreateManagedAccount">>
            /\ Sharing(ValueOf(ev.accountName)) = {k}
            /\ CreateManagedAccount(ev)
            => Suspends(ev, k)
       /\ \A p \in BagToSet(inflight) :
            p.handler = "create-managed-account" /\ Writes(p) =>
            /\ table'[p.Key].AwsAccountId = ValueOf(p.ev.accountId)
            /\ table'[p.Key].AwsAccountStatus =
                  IF p.ev.state = "SUCCEEDED" THEN "READY" ELSE ValueOf(p.ev.state)]_vars

\* A FAILED CreateManagedAccount event with an account id has been applied.
FailedAccountEventWritten ==
    /\ log = Line("create-managed-account", "Updated DynamoDB")
    /\ \E r \in redo :
          /\ r.ev.state = "FAILED" /\ r.ev.accountId = "111"
          /\ AccountStatusOf(r.key) = "FAILED"
          /\ Attr(table[r.key], "AwsAccountId") = "111"

\* The raw status of a StackSet status change: detailed-status if present,
\* else status
RawRoleStatus(ev) ==
    IF ev.statusDetails.detailed \notin {Undefined, ""}
    THEN ev.statusDetails.detailed
    ELSE ValueOf(ev.statusDetails.status)

ExpectedRoleStatus(ev) ==
    IF RawRoleStatus(ev) = "SUCCEEDED" THEN "READY" ELSE RawRoleStatus(ev)

\* C20: a StackSet status change whose account resolves to a name exactly
\* one item carries, and which the skip for an already deployed role does
\* not stop, reaches its UpdateCommand for that item; the update sets
\* PageSuiteRoleStatus to READY when the raw status is SUCCEEDED and to the
\* raw status otherwise, and it sets PageSuiteRoleArn if and only if that
\* status is READY, to arn:aws:iam::<segment 5 of the stack-id>:role/PageSuiteRole.
MatchedRoleEventWrites ==
    [][/\ log'.handler = "stackset-instance-status" =>
          \A n \in AccountNames : \A k \in Sharing(n) :
            Sharing(n) = {k} =>
            \A ev \in RoleEvents :
                /\ <<ev.source, ev.detailType>> =
                      <<"aws.cloudformation",
                        "CloudFormation StackSet StackInstance Status Change">>
                /\ Len(Split(ev.stackId)) >= 5
                /\ ~(/\ ExpectedRoleStatus(ev) = "READY"
                      /\ RoleStatusOf(k) = "READY"
                      /\ RoleArnOf(k) \notin {Undefined, ""})
                /\ CanStart
                /\ AfterDescribeAccount(ev, <<[Name |-> n]>>)
                => Suspends(ev, k)
       /\ \A p \in BagToSet(inflight) :
            p.handler = "stackset-instance-status" /\ Writes(p) =>
            /\ table'[p.Key].PageSuiteRoleStatus = ExpectedRoleStatus(p.ev)
            /\ "PageSuiteRoleArn" \in DOMAIN p.Set <=> ExpectedRoleStatus(p.ev) = "READY"
            /\ IF ExpectedRoleStatus(p.ev) = "READY"
               THEN table'[p.Key].PageSuiteRoleArn =
                       "arn:aws:iam::" \o Split(p.ev.stackId)[5] \o ":role/PageSuiteRole"
               ELSE p.Key \in DOMAIN table
                    => Attr(table'[p.Key], "PageSuiteRoleArn")
                         = Attr(table[p.Key], "PageSuiteRoleArn")]_vars

\* A status change with status FAILED and no detailed-status has been
\* applied to a created item: the role status is FAILED and no ARN is set.
FailedRoleEventWritten ==
    /\ log = Line("stackset-instance-status", "Updated DynamoDB")
    /\ \E r \in redo :
          /\ r.ev.statusDetails = [status |-> "FAILED", detailed |-> Undefined]
          /\ RoleStatusOf(r.key) = "FAILED"
          /\ RoleArnOf(r.key) = ""

\* C21: a StackSet status change is matched through the name DescribeAccount
\* gives for the account id of its stack-id: when it reaches its
\* UpdateCommand, the key is that of the one item carrying that name.  When
\* DescribeAccount answers without an Account or without a Name, or when the
\* call rejects, the event ends with the failure logged, no UpdateCommand
\* pending, the clock not read and every item as it was.
RoleMatchedThroughDirectory ==
    [][log'.handler = "stackset-instance-status" =>
       /\ \A ev \in RoleEvents :
            /\ <<ev.source, ev.detailType>> =
                  <<"aws.cloudformation",
                    "CloudFormation StackSet StackInstance Status Change">>
            /\ Len(Split(ev.stackId)) >= 5
            /\ CanStart
            =>
            /\ \A n \in AccountNames :
                  AfterDescribeAccount(ev, <<[Name |-> n]>>) /\ inflight' # inflight
                  => \E k \in Sharing(n) : Sharing(n) = {k} /\ Suspends(ev, k)
            /\ \A response \in {<< >>, <<[Name |-> Undefined]>>} :
                  AfterDescribeAccount(ev, response)
                  => /\ UNCHANGED <<table, inflight, now>>
                     /\ log' = Line("stackset-instance-status",
                                     "Could not retrieve account name")
       /\ LookupThrows("stackset-instance-status")
            => UNCHANGED <<table, inflight, now>>]_vars

\* The directory has given no name for the account of a status change
\* while an item that the event would have updated under its name is stored.
DirectoryGaveNoName ==
    /\ log = Line("stackset-instance-status", "Could not retrieve account name")
    /\ \E n \in AccountNames, k \in DOMAIN table :
          Sharing(n) = {k} /\ RoleStatusOf(k) # "READY"

\* C22: no step removes a stored key, and every item carries the PK and SK
\* of the key it is stored under: an item stays under the key it was created
\* with.
KeysAreKept ==
    [][/\ DOMAIN table \subseteq DOMAIN table'
       /\ \A k \in DOMAIN table' : table'[k].PK = k.PK /\ table'[k].SK = k.SK]_vars

\* The item created for tenant t1 is stored under its key after each of the
\* three handlers has updated it.
CreatedItemUpdated ==
    LET k == KeyOf("t1", "Dev")
    IN  /\ k \in DOMAIN table
        /\ AccountStatusOf(k) \notin {"PENDING", Undefined}
        /\ RoleStatusOf(k) \notin {"PENDING", Undefined}
        /\ Attr(table[k], "AwsAccountName") \in AccountNames
        /\ Attr(table[k], "AwsAccountId") \in AccountIds
        /\ now = MaxClock

\* The lines by which a handler reports that it gives an event up
FailureReports ==
    {"Missing required tags", "Invalid stack-id format",
     "Could not retrieve account name", "No DynamoDB item found",
     "ERROR: Found items", "Error handling event"}

\* C23: a failure while an event is handled ends that event only.  A step
\* that reports one (missing tags, invalid stack-id, no name from the
\* directory, no or several items matched, a rejected DescribeAccount, Scan
\* or Update) leaves every item as it was and starts nothing new: the
\* invocation is over, any other pending UpdateCommand stays pending.  And
\* every invocation completes: a pending UpdateCommand is eventually applied
\* or rejected, after which nothing is pending.
FailureEndsTheEventOnly ==
    /\ [][/\ log'.msg \in FailureReports =>
               /\ table' = table
               /\ \/ inflight' = inflight
                  \/ \E p \in BagToSet(inflight) :
                        p.handler = log'.handler /\ inflight' = inflight (-) SetToBag({p})
          /\ \A p \in BagToSet(inflight) :
               UpdateThrows(p) =>
               /\ table' = table
               /\ inflight' = inflight (-) SetToBag({p})
               /\ log' = Line(p.handler, "Error handling event")]_vars
    /\ (inflight # EmptyBag) ~> (inflight = EmptyBag)

\* An UpdateCommand has been rejected: the catch block has logged it,
\* nothing is pending and the item it was for is as the creation script
\* left it.
RejectedUpdateReported ==
    /\ log = Line("provision-product", "Error handling event")
    /\ inflight = EmptyBag
    /\ now > 1
    /\ \E k \in DOMAIN table : Projection(table[k]) = AsCreated

\* Handling evP, then evA gives the items that handling evA, then evP gives.
SameWhicheverFirst(tbl, evP, evA, ts) ==
    Projected(AccountHandled(ProvisionHandled(tbl, evP, ts), evA, ts + 1))
    = Projected(ProvisionHandled(AccountHandled(tbl, evA, ts), evP, ts + 1))

\* C24: invocations for different keys do not interfere.  An applied update
\* leaves every item under another key as it was; and in every table an
\* update leaves, a ProvisionProduct event for the stored key A and a
\* CreateManagedAccount event whose (non-empty) account name only the item
\* under another key B carries leave the same items whichever of the two is
\* handled first (LastModified aside).
DifferentKeysDoNotInterfere ==
    [][table' # table =>
       /\ \A p \in BagToSet(inflight) :
            Writes(p) =>
            /\ \A k \in DOMAIN table \ {p.Key} : table'[k] = table[k]
            /\ p.handler = "provision-product"
                  => table' = ProvisionHandled(table, p.ev, p.Set.LastModified)
       /\ \A evP \in ProvisionEvents, evA \in AccountEvents :
            /\ ProvisionRecognised(evP) /\ ~MissingTags(evP)
            /\ AccountRecognised(evA) /\ evA.accountName \in AccountNames
            /\ LET A == KeyOf(PsAccountId(evP), PsEnvironment(evP))
                   Matched == {k \in DOMAIN table' :
                                 Attr(table'[k], "AwsAccountName") = evA.accountName}
               IN  /\ A \in DOMAIN table'
                   /\ Cardinality(Matched) = 1
                   /\ A \notin Matched
            => SameWhicheverFirst(table', evP, evA, now')]_vars

\* C25: the creation script stores an item with AwsAccountStatus PENDING,
\* PageSuiteRoleStatus PENDING and empty AwsAccountId, AwsAccountName and
\* PageSuiteRoleArn, and every stored item carries all of these attributes
\* (and LastModified).
ItemsCarryAllAttributes ==
    [][/\ \A key \in Keys :
            key \notin DOMAIN table /\ CreateAccount(key)
            => /\ key \in DOMAIN table'
               /\ Projection(table'[key]) =
                     [AwsAccountStatus |-> "PENDING", AwsAccountId |-> "",
                      AwsAccountName |-> "", PageSuiteRoleStatus |-> "PENDING",
                      PageSuiteRoleArn |-> ""]
       /\ \A k \in DOMAIN table' : Attributes \subseteq DOMAIN table'[k]]_vars

\* The attributes a handler has no business with
OtherAxes(h) ==
    CASE h = "provision-product" ->
           {"AwsAccountId", "PageSuiteRoleStatus", "PageSuiteRoleArn"}
      [] h = "create-managed-account" ->
           {"AwsAccountName", "PageSuiteRoleStatus", "PageSuiteRoleArn"}
      [] h = "stackset-instance-status" ->
           {"AwsAccountStatus", "AwsAccountId", "AwsAccountName"}

\* Attribute a of the item under k, Undefined when there is no such item or
\* the item has no such attribute
Stored(tbl, k, a) == IF k \in DOMAIN tbl THEN Attr(tbl[k], a) ELSE Undefined

\* C26: each handler changes the attributes of its own axis only: a
\* provision-product write leaves AwsAccountId, PageSuiteRoleStatus and
\* PageSuiteRoleArn of every item as they were, a create-managed-account
\* write leaves AwsAccountName, PageSuiteRoleStatus and PageSuiteRoleArn,
\* and a stackset-instance-status write leaves AwsAccountStatus,
\* AwsAccountId and AwsAccountName (an attribute that was absent stays
\* absent).
HandlersKeepToTheirAxis ==
    [][\A p \in BagToSet(inflight) :
        Writes(p) =>
        \A k \in DOMAIN table', a \in OtherAxes(p.handler) :
            Stored(table', k, a) = Stored(table, k, a)]_vars

\* Every handler has written the same item: the role handler has just stored
\* FAILED on an item whose account axis holds the name of the provisioning
\* request and the id and READY of the account creation.
RoleWrittenBesideAccountAxis ==
    /\ log = Line("stackset-instance-status", "Updated DynamoDB")
    /\ \E k \in DOMAIN table :
          /\ Attr(table[k], "AwsAccountName") = "n1"
          /\ Attr(table[k], "AwsAccountId") = "111"
          /\ Attr(table[k], "AwsAccountStatus") = "READY"
          /\ Attr(table[k], "PageSuiteRoleStatus") = "FAILED"
          /\ Attr(table[k], "PageSuiteRoleArn") = ""

\* The step suspends a new invocation p at its UpdateCommand.
Begins(p) == inflight' = inflight (+) SetToBag({p})

\* C27: a handler invocation sends at most one update, to exactly one item:
\* a handler step that changes the table ends one invocation and changes the
\* item under that invocation's key and no other; and an invocation that
\* reaches its UpdateCommand addresses the key built from the event's tags
\* (provision-product) or the key of the only item its scan by
\* AwsAccountName returned (create-managed-account,
\* stackset-instance-status).
OneUpdateOfTheAddressedItem ==
    [][/\ table' # table /\ log'.handler # "test-account-creation"
          => \E p \in BagToSet(inflight) :
                /\ inflight' = inflight (-) SetToBag({p})
                /\ BagCardinality(inflight') = BagCardinality(inflight) - 1
                /\ \A k \in (DOMAIN table \cup DOMAIN table') \ {p.Key} :
                      k \in DOMAIN table /\ k \in DOMAIN table' /\ table'[k] = table[k]
       /\ \A p \in BagToSet(inflight') :
            Begins(p) =>
            IF p.handler = "provision-product"
            THEN p.Key = [PK |-> "PS#" \o FindValue(p.ev.tags, "ps:accountId"),
                          SK |-> "ENV#" \o FindValue(p.ev.tags, "ps:environment")]
            ELSE \E k \in DOMAIN table :
                    /\ p.Key = k
                    /\ p.Items = {table[k]}
                    /\ \A other \in DOMAIN table \ {k} :
                          Attr(table[other], "AwsAccountName")
                          # Attr(table[k], "AwsAccountName")]_vars

\* Of two stored items the create-managed-account handler has just written
\* the one its scan returned and not the other.
OneOfTwoItemsWritten ==
    /\ log = Line("create-managed-account", "Updated DynamoDB")
    /\ DOMAIN table = Keys
    /\ \E k \in Keys :
          /\ Attr(table[k], "AwsAccountName") = "n1"
          /\ Attr(table[k], "AwsAccountId") = "111"
          /\ \A other \in Keys \ {k} : Attr(table[other], "AwsAccountId") # "111"

\* C28: a CreateManagedAccount event without an account name (absent or
\* empty) writes no item: no create-managed-account invocation for such an
\* event gets an update applied that changes the table, in particular not
\* on an item as created, whose AwsAccountName is still ''.
NamelessAccountEventWritesNothing ==
    [][\A p \in BagToSet(inflight) :
        /\ p.handler = "create-managed-account"
        /\ ~Truthy(p.ev.accountName)
        /\ Writes(p)
        => table' = table]_vars

\* C29: an item whose PageSuiteRoleStatus is READY has a non-empty
\* AwsAccountId and the AwsAccountStatus READY.
RoleReadyOnlyOnCreatedAccount ==
    \A k \in DOMAIN table :
        Attr(table[k], "PageSuiteRoleStatus") = "READY"
        => /\ Truthy(Attr(table[k], "AwsAccountId"))
           /\ Attr(table[k], "AwsAccountStatus") = "READY"

====
